---- MODULE Spec2Model ----
(***************************************************************************)
(* Model of src/src/apiService.ts: the retry/backoff wrapper withRetry and *)
(* the four endpoint operations login, getTiebaList, getTbs and signTieba  *)
(* that run through it.                                                    *)
(*                                                                         *)
(* JavaScript numbers are modelled as integers; every value the model      *)
(* reaches is far below 2^53, where the two agree.  A suspension is        *)
(* modelled by the argument handed to sleep(); the timer firing is the     *)
(* suspension elapsing.                                                    *)
(***************************************************************************)
EXTENDS Integers, Sequences, FiniteSets, TLC

\* ------------------------------------------------------------------------
\* Program constants (apiService.ts:20-22)
MAX_RETRIES == 3
RETRY_DELAY == 3000
RETRY_MULTIPLIER == 2

\* ------------------------------------------------------------------------
\* Bounds of the exploration
NumInv == 2           \* invocations of withRetry that may be alive at once
MaxRetriesArg == 3    \* largest maxRetries argument explored
MaxDelayArg == 0      \* initialDelay is RETRY_DELAY or one of 1..MaxDelayArg
MaxMultArg == 2       \* delayMultiplier ranges over 0..MaxMultArg
MaxAttempts == 3      \* calls of requestFn in a run of several invocations

Inv == 1..NumInv
RetriesArgs == (0 - 1)..MaxRetriesArg
DelayArgs == {RETRY_DELAY} \cup (1..MaxDelayArg)
MultArgs == 0..MaxMultArg

\* ------------------------------------------------------------------------
\* JSON / JavaScript values of a response payload
Undef == [t |-> "undefined"]
Null == [t |-> "null"]
Str(s) == [t |-> "string", s |-> s]
Num(n) == [t |-> "number", n |-> n]
Arr(a) == [t |-> "array", a |-> a]
Obj(f) == [t |-> "object", f |-> f]
EmptyObj == Obj([k \in {} |-> Undef])

\* JavaScript truthiness (the operand of ! and ||)
Truthy(j) ==
  CASE j.t = "undefined" -> FALSE
    [] j.t = "null" -> FALSE
    [] j.t = "string" -> j.s # ""
    [] j.t = "number" -> j.n # 0
    [] OTHER -> TRUE

\* j.k : undefined when j has no such property
Get(j, k) == IF j.t = "object" /\ k \in DOMAIN j.f THEN j.f[k] ELSE Undef

\* reading a property of undefined or null throws a TypeError
CanRead(j) == j.t \notin {"undefined", "null"}

\* a || b
OrElse(a, b) == IF Truthy(a) THEN a ELSE b

\* ------------------------------------------------------------------------
\* The transport (axios): a reply is an HTTP response or a network failure
Statuses == {304, 400, 429, 499, 500}
NetworkFailure == [kind |-> "network"]
Response(status, data) == [kind |-> "response", status |-> status, data |-> data]

\* axios resolves the promise for a 2xx status and rejects it otherwise
Resolves(reply) == reply.kind = "response" /\ reply.status >= 200 /\ reply.status < 300

\* the AxiosError of a rejected request; id is the attempt that created it
AxiosErrorOf(reply, id) ==
  IF reply.kind = "network"
  THEN [name |-> "AxiosError", message |-> <<"Network Error">>,
        hasResponse |-> FALSE, status |-> 0, id |-> id]
  ELSE [name |-> "AxiosError", message |-> <<"Request failed with status code">>,
        hasResponse |-> TRUE, status |-> reply.status, id |-> id]

\* outcomes of one call of requestFn
Reject(e) == [ok |-> FALSE, error |-> e]
Throw(name, message, id) ==
  Reject([name |-> name, message |-> message, hasResponse |-> FALSE, status |-> 0, id |-> id])
Return(v, lines) == [ok |-> TRUE, value |-> v, lines |-> lines]
\* the TypeError of reading property k of j, which is undefined or null
TypeErrorMessage(j, k) == <<"Cannot read properties of ", j.t, " (reading '", k, "')">>

\* ------------------------------------------------------------------------
\* Device identity helper (generateDeviceId of ./utils): some non-empty identifier
DeviceIds == {"dev-1", "dev-2"}

\* ------------------------------------------------------------------------
\* The request functions handed to withRetry.  The Chinese texts of the source
\* are written in English; a message is the sequence of its parts, so that the
\* operation name inside a message stays recognisable.
\* a bare transport call without validation
request(reply, id) ==
  IF ~Resolves(reply) THEN Reject(AxiosErrorOf(reply, id))
  ELSE Return(reply.data, <<>>)

login(bduss, reply, id, dev) ==
  IF ~Resolves(reply) THEN Reject(AxiosErrorOf(reply, id))
  ELSE LET data == reply.data IN
    IF ~Truthy(data) \/ Get(data, "no") # Num(0) \/ Get(data, "error") # Str("success")
    THEN Throw("Error", <<"verify BDUSS", " failed, possibly expired">>, id)
    ELSE IF ~CanRead(Get(data, "data"))
    THEN Throw("TypeError", TypeErrorMessage(Get(data, "data"), "user_id"), id)
    ELSE Return([status |-> 200, bduss |-> bduss,
                 userId |-> Get(Get(data, "data"), "user_id"),
                 isValid |-> TRUE, deviceId |-> dev],
                <<[level |-> "log", text |-> "verify BDUSS succeeded"]>>)

getTiebaList(bduss, reply, id) ==
  IF ~Resolves(reply) THEN Reject(AxiosErrorOf(reply, id))
  ELSE LET data == reply.data IN
    IF ~Truthy(data) \/ Get(data, "error") # Str("success")
    THEN Throw("Error",
               <<"get tieba list", " failed: ", OrElse(Get(data, "error_msg"), Str("unknown error")).s>>, id)
    ELSE IF ~CanRead(Get(data, "data"))
    THEN Throw("TypeError", TypeErrorMessage(Get(data, "data"), "like_forum"), id)
    ELSE LET tiebaList == OrElse(Get(Get(data, "data"), "like_forum"), Arr(<<>>)) IN
      Return(tiebaList,
             <<[level |-> "log", text |-> "get tieba list succeeded", count |-> Len(tiebaList.a)]>>)

\* variant: only the presence of a payload is checked, an empty token passes
getTbs_AcceptsEmptyToken(bduss, reply, id) ==
  IF ~Resolves(reply) THEN Reject(AxiosErrorOf(reply, id))
  ELSE IF ~Truthy(reply.data) \/ Get(reply.data, "tbs") = Undef
  THEN Throw("Error", <<"get tbs failed">>, id)
  ELSE Return(Get(reply.data, "tbs"), <<>>)

getTbs(bduss, reply, id) ==
  IF ~Resolves(reply) THEN Reject(AxiosErrorOf(reply, id))
  ELSE LET data == reply.data IN
    IF ~Truthy(data) \/ ~Truthy(Get(data, "tbs"))
    THEN Throw("Error", <<"get tbs failed">>, id)
    ELSE Return(Get(data, "tbs"), <<>>)

signTieba(bduss, reply, id) ==
  IF ~Resolves(reply) THEN Reject(AxiosErrorOf(reply, id))
  ELSE LET data == reply.data IN
    IF ~Truthy(data)
    THEN Throw("Error", <<"sign response data is empty">>, id)
    ELSE Return(data, <<>>)

\* ------------------------------------------------------------------------
\* Replies the platform can give to each operation
User == Obj([user_id |-> Str("U1")])
LoginBodies ==
  { Null,
    Obj([no |-> Num(0), error |-> Str("success"), data |-> User]),
    Obj([no |-> Num(0), error |-> Str("success"), data |-> EmptyObj]),
    Obj([no |-> Num(0), error |-> Str("success")]),
    Obj([no |-> Num(0), error |-> Str("success"), data |-> Null]),
    Obj([no |-> Num(1), error |-> Str("fail")]),
    Obj([no |-> Num(1), error |-> Str("success"), data |-> User]),
    Obj([no |-> Num(0), error |-> Str("fail"), data |-> User]) }

Forums == Arr(<<Obj([forum_name |-> Str("f1")]), Obj([forum_name |-> Str("f2")])>>)
TiebaListBodies ==
  { Null,
    Obj([error |-> Str("success"), data |-> Obj([like_forum |-> Forums])]),
    Obj([error |-> Str("success"), data |-> EmptyObj]),
    Obj([error |-> Str("success")]),
    Obj([error |-> Str("success"), data |-> Null]),
    Obj([error |-> Str("fail"), error_msg |-> Str("need login")]),
    Obj([no |-> Num(1)]) }

TbsBodies ==
  { Null,
    Obj([tbs |-> Str("abc123"), is_login |-> Num(1)]),
    Obj([tbs |-> Str(""), is_login |-> Num(0)]),
    Obj([is_login |-> Num(0)]) }

SignBodies ==
  { Null, Str(""), Num(0),
    Obj([error_code |-> Str("0")]),
    Obj([error_code |-> Str("160002"), error_msg |-> Str("already signed")]),
    EmptyObj }

RequestBodies == {Str("r1"), Str("r2")}

Bodies(op) ==
  CASE op = "login" -> LoginBodies
    [] op = "getTiebaList" -> TiebaListBodies
    [] op = "getTbs" -> TbsBodies
    [] op = "signTieba" -> SignBodies
    [] OTHER -> RequestBodies

Replies(op) ==
  {NetworkFailure} \cup {Response(s, Null) : s \in Statuses}
                   \cup {Response(200, b) : b \in Bodies(op)}

AllReplies == UNION {Replies(op) : op \in {"request", "login", "getTiebaList", "getTbs", "signTieba"}}

\* requestFn of an invocation with configuration c, attempt id, on a reply
RequestFn(c, reply, id, dev) ==
  CASE c.op = "login" -> login(c.bduss, reply, id, dev)
    [] c.op = "getTiebaList" -> getTiebaList(c.bduss, reply, id)
    [] c.op = "getTbs" -> getTbs(c.bduss, reply, id)
    [] c.op = "signTieba" -> signTieba(c.bduss, reply, id)
    [] OTHER -> request(reply, id)

\* only login draws a device id
DevChoices(c) == IF c.op = "login" THEN DeviceIds ELSE {"dev-1"}

\* ------------------------------------------------------------------------
\* The request each call of requestFn sends
\* toQueryString of ./utils: the form encoding, one key=value pair per entry
toQueryString(pairs) == pairs

SignRequest(bduss, tiebaName, tbs, index) ==
  [method |-> "POST", url |-> "https://c.tieba.baidu.com/c/c/forum/sign",
   cookie |-> <<"BDUSS", bduss>>, host |-> "tieba.baidu.com",
   body |-> toQueryString(<<<<"tbs", tbs>>, <<"kw", tiebaName>>, <<"ie", "utf-8">> >>)]

GetRequest(url, bduss) ==
  [method |-> "GET", url |-> url, cookie |-> <<"BDUSS", bduss>>]

RequestOf(c) ==
  CASE c.op = "login" -> GetRequest("https://tieba.baidu.com/mo/q/sync", c.bduss)
    [] c.op = "getTiebaList" -> GetRequest("https://tieba.baidu.com/mo/q/newmoindex", c.bduss)
    [] c.op = "getTbs" -> GetRequest("http://tieba.baidu.com/dc/common/tbs", c.bduss)
    [] c.op = "signTieba" -> SignRequest(c.bduss, c.tiebaName, c.tbs, c.index)
    [] OTHER -> [method |-> "GET", url |-> "request"]

\* ------------------------------------------------------------------------
\* Configurations of an invocation of withRetry
Credentials == {"B1", "B2"}

OperationName(op) ==
  CASE op = "login" -> "verify BDUSS"
    [] op = "getTiebaList" -> "get tieba list"
    [] op = "getTbs" -> "get TBS parameter"
    [] op = "signTieba" -> "sign operation"
    [] OTHER -> "request"

\* tiebaName, tbs and index are the further arguments of signTieba
Config(op, bduss, maxRetries, initialDelay, delayMultiplier) ==
  [op |-> op, operationName |-> OperationName(op), bduss |-> bduss,
   maxRetries |-> maxRetries, initialDelay |-> initialDelay,
   delayMultiplier |-> delayMultiplier,
   tiebaName |-> "", tbs |-> "", index |-> 0]

SignConfig(bduss, tiebaName, tbs, index) ==
  [Config("signTieba", bduss, MAX_RETRIES, RETRY_DELAY, RETRY_MULTIPLIER)
     EXCEPT !.tiebaName = tiebaName, !.tbs = tbs, !.index = index]

\* the exported operations call withRetry with its default arguments
EndpointOps == {"login", "getTiebaList", "getTbs", "signTieba"}
Indices == {0, 1}
EndpointCfgs ==
  {Config(op, b, MAX_RETRIES, RETRY_DELAY, RETRY_MULTIPLIER) :
     op \in EndpointOps \ {"signTieba"}, b \in Credentials}
  \cup {SignConfig("B1", "tieba-1", "abc123", ix) : ix \in Indices}

\* withRetry itself, over its whole argument space
RequestCfgs ==
  {Config("request", "B1", n, d, m) : n \in RetriesArgs, d \in DelayArgs, m \in MultArgs}

Cfgs == EndpointCfgs \cup RequestCfgs

NoCfg == Config("none", "B1", 0, 0, 0)

\* ------------------------------------------------------------------------
\* withRetry: classification, terminal condition, escalation, log lines
IsRateLimited(e) == e.hasResponse /\ e.status = 429

\* variant: the lower end of the 4xx range is left out
IsClientError_Above400(e) == e.hasResponse /\ e.status > 400 /\ e.status < 500

IsClientError(e) == e.hasResponse /\ e.status >= 400 /\ e.status < 500

\* variants of the terminal condition: one retry short; 429 not exempted
ShouldPropagate_OffByOne(r, maxRetries, e) ==
  r >= maxRetries \/ (~(e.hasResponse /\ e.status = 429)
                        /\ e.hasResponse /\ e.status >= 400 /\ e.status < 500)

ShouldPropagate_No429Exemption(r, maxRetries, e) ==
  r > maxRetries \/ (e.hasResponse /\ e.status >= 400 /\ e.status < 500)

\* variant: a client error ends the invocation only on the first attempt
ShouldPropagate_ClientErrorFirstOnly(r, maxRetries, e) ==
  r > maxRetries \/ (r = 1 /\ e.hasResponse /\ e.status \in (400..499) \ {429})

\* variant: a validation failure raised on a 2xx response fails fast
ShouldPropagate_FailFastOnValidation(r, maxRetries, e) ==
  \/ r > maxRetries
  \/ (e.hasResponse /\ e.status \in (400..499) \ {429})
  \/ e.name = "Error"

\* variant: one attempt more is allowed before giving up
ShouldPropagate_OneTooMany(r, maxRetries, e) ==
  r > maxRetries + 1 \/ (e.hasResponse /\ e.status \in (400..499) \ {429})

ShouldPropagate(r, maxRetries, e) ==
  r > maxRetries \/ (~IsRateLimited(e) /\ IsClientError(e))

\* variant: a rate-limited failure escalates like any other
NextDelay_NoDoubling(d, delayMultiplier, e) == d * delayMultiplier

\* variant: the escalated delay is capped at 30 seconds
NextDelay_Capped(d, delayMultiplier, e) ==
  LET n == IF IsRateLimited(e) THEN d * delayMultiplier * 2 ELSE d * delayMultiplier
  IN IF n > 30000 THEN 30000 ELSE n

NextDelay(d, delayMultiplier, e) ==
  IF IsRateLimited(e) THEN d * delayMultiplier * 2 ELSE d * delayMultiplier

ErrorLine(c, r, e) ==
  [level |-> "error", operationName |-> c.operationName, retries |-> r,
   message |-> e.message]

WarnLine(c, r, d, e) ==
  IF IsRateLimited(e)
  THEN [level |-> "warn", text |-> "request rate limited", delay |-> d, retries |-> r,
        maxRetries |-> c.maxRetries]
  ELSE [level |-> "warn", operationName |-> c.operationName, delay |-> d,
        retries |-> r, maxRetries |-> c.maxRetries]

\* variant: the failure of the first attempt is kept and rethrown
Rethrown_First(h, e) == IF h = <<>> THEN e ELSE h[1].error

\* the value withRetry rethrows; h holds the outcomes of the earlier attempts
Rethrown(h, e) == e

\* ------------------------------------------------------------------------
\* State
VARIABLES
  pc,        \* where each invocation stands
  cfg,       \* its arguments
  retries,   \* let retries
  delay,     \* let delay
  calls,     \* number of calls of requestFn made so far
  inflight,  \* calls of requestFn not yet settled
  timer,     \* pending sleep timer: <<ms>> or <<>>
  sleeps,    \* the suspensions started so far, in order
  history,   \* the outcomes of the settled calls of requestFn, in order
  replies,   \* the replies of the transport to those calls, in order
  sent,      \* the requests the calls of requestFn sent, in order
  result,    \* <<value>> once the promise is fulfilled
  thrown,    \* the failures the promise was rejected with
  console    \* the lines the invocation wrote to the console

vars == <<pc, cfg, retries, delay, calls, inflight, timer, sleeps, history,
          replies, sent, result, thrown, console>>

Init ==
  /\ pc = [i \in Inv |-> "idle"]
  /\ cfg = [i \in Inv |-> NoCfg]
  /\ retries = [i \in Inv |-> 0]
  /\ delay = [i \in Inv |-> 0]
  /\ calls = [i \in Inv |-> 0]
  /\ inflight = [i \in Inv |-> 0]
  /\ timer = [i \in Inv |-> <<>>]
  /\ sleeps = [i \in Inv |-> <<>>]
  /\ history = [i \in Inv |-> <<>>]
  /\ replies = [i \in Inv |-> <<>>]
  /\ sent = [i \in Inv |-> <<>>]
  /\ result = [i \in Inv |-> <<>>]
  /\ thrown = [i \in Inv |-> <<>>]
  /\ console = [i \in Inv |-> <<>>]

\* variant: the loop suspends for the initial delay before its first attempt
Call_SleepsFirst(i, c) ==
  /\ pc[i] = "idle"
  /\ cfg' = [cfg EXCEPT ![i] = c]
  /\ retries' = [retries EXCEPT ![i] = 0]
  /\ delay' = [delay EXCEPT ![i] = c.initialDelay]
  /\ calls' = [calls EXCEPT ![i] = 1]
  /\ inflight' = [inflight EXCEPT ![i] = 1]
  /\ sent' = [sent EXCEPT ![i] = <<RequestOf(c)>>]
  /\ sleeps' = [sleeps EXCEPT ![i] = <<c.initialDelay>>]
  /\ pc' = [pc EXCEPT ![i] = "awaitRequest"]
  /\ UNCHANGED <<timer, history, replies, result, thrown, console>>

\* withRetry is called: the locals are initialised and the loop makes its
\* first call of requestFn, which suspends at the await.
Call(i, c) ==
  /\ pc[i] = "idle"
  /\ cfg' = [cfg EXCEPT ![i] = c]
  /\ retries' = [retries EXCEPT ![i] = 0]
  /\ delay' = [delay EXCEPT ![i] = c.initialDelay]
  /\ calls' = [calls EXCEPT ![i] = 1]
  /\ inflight' = [inflight EXCEPT ![i] = 1]
  /\ sent' = [sent EXCEPT ![i] = <<RequestOf(c)>>]
  /\ pc' = [pc EXCEPT ![i] = "awaitRequest"]
  /\ UNCHANGED <<timer, sleeps, history, replies, result, thrown, console>>

\* variant: the value is not returned and the loop calls requestFn again
Succeed_KeepsLooping(i, reply, dev) ==
  /\ pc[i] = "awaitRequest"
  /\ inflight[i] > 0
  /\ reply \in Replies(cfg[i].op)
  /\ dev \in DevChoices(cfg[i])
  /\ LET out == RequestFn(cfg[i], reply, calls[i], dev) IN
     /\ out.ok
     /\ history' = [history EXCEPT ![i] = Append(@, out)]
     /\ replies' = [replies EXCEPT ![i] = Append(@, reply)]
     /\ console' = [console EXCEPT ![i] = @ \o out.lines]
     /\ calls' = [calls EXCEPT ![i] = @ + 1]
  /\ UNCHANGED <<pc, cfg, retries, delay, inflight, timer, sleeps, result, thrown, sent>>

\* requestFn resolves: withRetry returns its value.
Succeed(i, reply, dev) ==
  /\ pc[i] = "awaitRequest"
  /\ inflight[i] > 0
  /\ reply \in Replies(cfg[i].op)
  /\ dev \in DevChoices(cfg[i])
  /\ LET out == RequestFn(cfg[i], reply, calls[i], dev) IN
     /\ out.ok
     /\ history' = [history EXCEPT ![i] = Append(@, out)]
     /\ replies' = [replies EXCEPT ![i] = Append(@, reply)]
     /\ inflight' = [inflight EXCEPT ![i] = @ - 1]
     /\ result' = [result EXCEPT ![i] = <<out.value>>]
     /\ console' = [console EXCEPT ![i] = @ \o out.lines]
     /\ pc' = [pc EXCEPT ![i] = "returned"]
  /\ UNCHANGED <<cfg, retries, delay, calls, timer, sleeps, thrown, sent>>

\* requestFn rejects and the terminal condition holds: log and rethrow.
Propagate(i, reply, dev) ==
  /\ pc[i] = "awaitRequest"
  /\ inflight[i] > 0
  /\ reply \in Replies(cfg[i].op)
  /\ dev \in DevChoices(cfg[i])
  /\ LET out == RequestFn(cfg[i], reply, calls[i], dev) IN
     /\ ~out.ok
     /\ ShouldPropagate(retries[i] + 1, cfg[i].maxRetries, out.error)
     /\ history' = [history EXCEPT ![i] = Append(@, out)]
     /\ replies' = [replies EXCEPT ![i] = Append(@, reply)]
     /\ inflight' = [inflight EXCEPT ![i] = @ - 1]
     /\ retries' = [retries EXCEPT ![i] = @ + 1]
     /\ console' = [console EXCEPT ![i] =
                      Append(@, ErrorLine(cfg[i], retries[i] + 1, out.error))]
     /\ thrown' = [thrown EXCEPT ![i] = Append(@, Rethrown(history[i], out.error))]
     /\ pc' = [pc EXCEPT ![i] = "thrown"]
  /\ UNCHANGED <<cfg, delay, calls, timer, sleeps, result, sent>>

\* variant: retries and delay are one pair of variables for all invocations
Backoff_SharedState(i, reply, dev) ==
  /\ pc[i] = "awaitRequest"
  /\ inflight[i] > 0
  /\ reply \in Replies(cfg[i].op)
  /\ dev \in DevChoices(cfg[i])
  /\ LET out == RequestFn(cfg[i], reply, calls[i], dev)
         d == IF out.ok THEN 0
              ELSE IF out.error.hasResponse /\ out.error.status = 429
                   THEN delay[i] * cfg[i].delayMultiplier * 2
                   ELSE delay[i] * cfg[i].delayMultiplier
     IN
     /\ ~out.ok
     /\ ~(retries[i] + 1 > cfg[i].maxRetries
          \/ (out.error.hasResponse /\ out.error.status \in (400..499) \ {429}))
     /\ history' = [history EXCEPT ![i] = Append(@, out)]
     /\ replies' = [replies EXCEPT ![i] = Append(@, reply)]
     /\ inflight' = [inflight EXCEPT ![i] = @ - 1]
     /\ retries' = [j \in Inv |-> IF pc[j] \in {"awaitRequest", "awaitSleep"}
                                  THEN retries[i] + 1 ELSE retries[j]]
     /\ delay' = [j \in Inv |-> IF pc[j] \in {"awaitRequest", "awaitSleep"}
                                THEN d ELSE delay[j]]
     /\ console' = [console EXCEPT ![i] =
                      Append(@, [level |-> "warn", delay |-> d, retries |-> retries[i] + 1])]
     /\ timer' = [timer EXCEPT ![i] = <<d>>]
     /\ sleeps' = [sleeps EXCEPT ![i] = Append(@, d)]
     /\ pc' = [pc EXCEPT ![i] = "awaitSleep"]
  /\ UNCHANGED <<cfg, calls, result, thrown, sent>>

\* variant: sleep(delay) is not awaited, the loop goes straight on
Backoff_NoAwait(i, reply, dev) ==
  /\ pc[i] = "awaitRequest"
  /\ inflight[i] > 0
  /\ reply \in Replies(cfg[i].op)
  /\ dev \in DevChoices(cfg[i])
  /\ LET out == RequestFn(cfg[i], reply, calls[i], dev)
         d == IF out.ok THEN 0
              ELSE IF out.error.hasResponse /\ out.error.status = 429
                   THEN delay[i] * cfg[i].delayMultiplier * 2
                   ELSE delay[i] * cfg[i].delayMultiplier
     IN
     /\ ~out.ok
     /\ ~(retries[i] + 1 > cfg[i].maxRetries
          \/ (out.error.hasResponse /\ out.error.status \in (400..499) \ {429}))
     /\ history' = [history EXCEPT ![i] = Append(@, out)]
     /\ replies' = [replies EXCEPT ![i] = Append(@, reply)]
     /\ retries' = [retries EXCEPT ![i] = @ + 1]
     /\ delay' = [delay EXCEPT ![i] = d]
     /\ console' = [console EXCEPT ![i] =
                      Append(@, [level |-> "warn", delay |-> d, retries |-> retries[i] + 1])]
     /\ timer' = [timer EXCEPT ![i] = <<d>>]
     /\ sleeps' = [sleeps EXCEPT ![i] = Append(@, d)]
     /\ calls' = [calls EXCEPT ![i] = @ + 1]
  /\ UNCHANGED <<pc, cfg, inflight, result, thrown, sent>>

\* requestFn rejects and the failure is retried: escalate the delay, warn,
\* and suspend in sleep(delay).
Backoff(i, reply, dev) ==
  /\ pc[i] = "awaitRequest"
  /\ inflight[i] > 0
  /\ reply \in Replies(cfg[i].op)
  /\ dev \in DevChoices(cfg[i])
  /\ LET out == RequestFn(cfg[i], reply, calls[i], dev)
         d == NextDelay(delay[i], cfg[i].delayMultiplier, out.error)
     IN
     /\ ~out.ok
     /\ ~ShouldPropagate(retries[i] + 1, cfg[i].maxRetries, out.error)
     /\ history' = [history EXCEPT ![i] = Append(@, out)]
     /\ replies' = [replies EXCEPT ![i] = Append(@, reply)]
     /\ inflight' = [inflight EXCEPT ![i] = @ - 1]
     /\ retries' = [retries EXCEPT ![i] = @ + 1]
     /\ delay' = [delay EXCEPT ![i] = d]
     /\ console' = [console EXCEPT ![i] =
                      Append(@, WarnLine(cfg[i], retries[i] + 1, d, out.error))]
     /\ timer' = [timer EXCEPT ![i] = <<d>>]
     /\ sleeps' = [sleeps EXCEPT ![i] = Append(@, d)]
     /\ pc' = [pc EXCEPT ![i] = "awaitSleep"]
  /\ UNCHANGED <<cfg, calls, result, thrown, sent>>

\* the sleep timer fires: the loop calls requestFn again.
Wake(i) ==
  /\ pc[i] = "awaitSleep"
  /\ timer[i] # <<>>
  /\ timer' = [timer EXCEPT ![i] = <<>>]
  /\ calls' = [calls EXCEPT ![i] = @ + 1]
  /\ inflight' = [inflight EXCEPT ![i] = @ + 1]
  /\ sent' = [sent EXCEPT ![i] = Append(@, RequestOf(cfg[i]))]
  /\ pc' = [pc EXCEPT ![i] = "awaitRequest"]
  /\ UNCHANGED <<cfg, retries, delay, sleeps, history, replies, result, thrown, console>>

\* one step of the program: the invocations I, called with configurations
\* drawn from C and answered with replies drawn from R
Step(I, C, R) ==
  \/ \E i \in I, c \in C : Call(i, c)
  \/ \E i \in I, reply \in R, dev \in DeviceIds : Succeed(i, reply, dev)
  \/ \E i \in I, reply \in R, dev \in DeviceIds : Propagate(i, reply, dev)
  \/ \E i \in I, reply \in R, dev \in DeviceIds : Backoff(i, reply, dev)
  \/ \E i \in I : Wake(i)

\* the calls of requestFn made so far, all invocations taken together
RECURSIVE SumOver(_, _)
SumOver(f, S) ==
  IF S = {} THEN 0
  ELSE LET x == CHOOSE y \in S : TRUE IN f[x] + SumOver(f, S \ {x})
Attempts == SumOver(calls, Inv)

\* several invocations, called in any order and at any time, each of them
\* before, while or after the others run, with every configuration and
\* every reply; a run is followed for MaxAttempts calls of requestFn
Next ==
  \/ Attempts < MaxAttempts /\ \E i \in Inv, c \in Cfgs : Call(i, c)
  \/ \E i \in Inv, reply \in AllReplies, dev \in DeviceIds : Succeed(i, reply, dev)
  \/ \E i \in Inv, reply \in AllReplies, dev \in DeviceIds : Propagate(i, reply, dev)
  \/ \E i \in Inv, reply \in AllReplies, dev \in DeviceIds : Backoff(i, reply, dev)
  \/ Attempts < MaxAttempts /\ \E i \in Inv : Wake(i)
Spec == Init /\ [][Next]_vars

\* one invocation over the whole argument space and every reply
SoloNext == Step({1}, Cfgs, AllReplies)
SoloSpec == Init /\ [][SoloNext]_vars

\* the transport settles the attempt awaited by invocation i and the handler
\* runs up to its next await (or to its return or throw)
Respond(i) ==
  /\ pc[i] = "awaitRequest"
  /\ \E reply \in Replies(cfg[i].op), dev \in DevChoices(cfg[i]) :
       \/ Succeed(i, reply, dev)
       \/ Propagate(i, reply, dev)
       \/ Backoff(i, reply, dev)

\* the continuation of invocation i runs: it awaits either an attempt or a
\* timer, never both
Resume(i) == Respond(i) \/ Wake(i)

\* every attempt settles and every timer fires: the event loop runs a ready
\* continuation, and an enabled continuation of one invocation is never
\* disabled by another invocation
FairSoloSpec ==
  /\ SoloSpec
  /\ \A i \in Inv : WF_vars(Resume(i))

TypeOK ==
  \A i \in Inv :
    /\ pc[i] \in {"idle", "awaitRequest", "awaitSleep", "returned", "thrown"}
    /\ pc[i] # "idle" => cfg[i] \in Cfgs
    /\ retries[i] \in Nat /\ calls[i] \in Nat /\ inflight[i] \in Nat

\* ------------------------------------------------------------------------
\* Vocabulary of the properties
Started(i) == pc[i] # "idle"
Failed(o) == ~o.ok
Is5xx(o) == ~o.ok /\ o.error.hasResponse /\ o.error.status >= 500 /\ o.error.status < 600
Is429(o) == ~o.ok /\ o.error.hasResponse /\ o.error.status = 429
Is4xxNot429(o) ==
  ~o.ok /\ o.error.hasResponse /\ o.error.status \in (400..499) \ {429}
\* a failure that is neither rate-limited nor a client error
IsGeneric(o) ==
  ~o.ok /\ ~(o.error.hasResponse /\ o.error.status \in 400..499)
AllOf(h, P(_)) == \A k \in 1..Len(h) : P(h[k])
Last(h) == h[Len(h)]
Max(a, b) == IF a >= b THEN a ELSE b

RECURSIVE Pow(_, _)
Pow(b, e) == IF e = 0 THEN 1 ELSE b * Pow(b, e - 1)

\* ------------------------------------------------------------------------
\* C1: with maxRetries = N >= 0, an invocation whose operation fails with a
\* 5xx status on every attempt calls the operation exactly N+1 times and
\* then rejects with the failure: it never stops earlier, never calls more
\* often, and never returns.
C1_Always5xxMakesNPlus1Attempts ==
  \A i \in Inv :
    (Started(i) /\ cfg[i].maxRetries >= 0 /\ AllOf(history[i], Is5xx)) =>
      /\ calls[i] <= cfg[i].maxRetries + 1
      /\ pc[i] # "returned"
      /\ (pc[i] = "thrown") <=> (Len(history[i]) = cfg[i].maxRetries + 1)
      /\ pc[i] = "thrown" =>
           /\ calls[i] = cfg[i].maxRetries + 1
           /\ thrown[i] = <<Last(history[i]).error>>

W_C1_ExhaustedOn5xx ==
  \E i \in Inv :
    /\ pc[i] = "thrown" /\ cfg[i].maxRetries = 2
    /\ Len(history[i]) = 3 /\ AllOf(history[i], Is5xx)

\* ------------------------------------------------------------------------
\* C2 (as claimed): from the start of an invocation, the j-th suspension of a
\* run of 429 failures lasts D*(2M)^j and that of a run of generic failures
\* D*M^j; the first suspension is D*M or D*2M and is never D itself.
C2_Original_FirstSuspensionNeverD ==
  \A i \in Inv :
    LET D == cfg[i].initialDelay
        M == cfg[i].delayMultiplier
    IN
    /\ \A j \in 1..Len(sleeps[i]) :
         /\ AllOf(SubSeq(history[i], 1, j), Is429) => sleeps[i][j] = D * Pow(2 * M, j)
         /\ AllOf(SubSeq(history[i], 1, j), IsGeneric) => sleeps[i][j] = D * Pow(M, j)
    /\ sleeps[i] # <<>> => sleeps[i][1] \in {D * M, D * 2 * M} /\ sleeps[i][1] # D

\* C2 (amended): the same escalation, with the first suspension D*M after a
\* generic failure and D*2M after a 429: the multiplier is applied before the
\* first suspension (which therefore equals D when the applied factor is 1).
C2_RunsEscalateGeometrically ==
  \A i \in Inv :
    LET D == cfg[i].initialDelay
        M == cfg[i].delayMultiplier
    IN
    /\ \A j \in 1..Len(sleeps[i]) :
         /\ AllOf(SubSeq(history[i], 1, j), Is429) => sleeps[i][j] = D * Pow(2 * M, j)
         /\ AllOf(SubSeq(history[i], 1, j), IsGeneric) => sleeps[i][j] = D * Pow(M, j)
    /\ sleeps[i] # <<>> =>
         sleeps[i][1] = IF Is429(history[i][1]) THEN D * 2 * M ELSE D * M

W_C2_ThreeRateLimitedSuspensions ==
  \E i \in Inv :
    /\ cfg[i].initialDelay = RETRY_DELAY /\ cfg[i].delayMultiplier = 2
    /\ Len(sleeps[i]) = 3 /\ AllOf(history[i], Is429)
    /\ sleeps[i] = <<12000, 48000, 192000>>

\* ------------------------------------------------------------------------
\* C3: when the first attempt fails with a 4xx status other than 429 the
\* failure is propagated at once, whatever maxRetries is: one call of the
\* operation, no suspension.
C3_First4xxPropagatesImmediately ==
  \A i \in Inv :
    (history[i] # <<>> /\ Is4xxNot429(history[i][1])) =>
      /\ pc[i] = "thrown"
      /\ calls[i] = 1 /\ Len(history[i]) = 1
      /\ sleeps[i] = <<>> /\ timer[i] = <<>> /\ inflight[i] = 0
      /\ thrown[i] = <<history[i][1].error>>

W_C3_First4xxWithRetriesLeft ==
  \E i \in Inv :
    /\ cfg[i].maxRetries = MAX_RETRIES
    /\ pc[i] = "thrown" /\ calls[i] = 1
    /\ history[i][1].error.status = 400

\* ------------------------------------------------------------------------
\* C4: a successful attempt is the last thing an invocation does: its value
\* is the value returned, the operation is not called again and no
\* suspension follows, however many failed attempts came before.
C4_SuccessReturnsImmediately ==
  \A i \in Inv :
    /\ \A k \in 1..Len(history[i]) :
         history[i][k].ok =>
           /\ k = Len(history[i])
           /\ pc[i] = "returned"
           /\ result[i] = <<history[i][k].value>>
           /\ calls[i] = k /\ inflight[i] = 0
           /\ timer[i] = <<>> /\ Len(sleeps[i]) = k - 1
    /\ pc[i] = "returned" => (history[i] # <<>> /\ Last(history[i]).ok)

W_C4_SuccessAfterTwoFailures ==
  \E i \in Inv :
    /\ pc[i] = "returned" /\ Len(history[i]) = 3
    /\ result[i] = <<Str("r2")>>

\* ------------------------------------------------------------------------
\* C5: the caller sees at most one failure, and it is the failure of the last
\* attempt made; failures of earlier attempts are never surfaced, and an
\* invocation that returned a result surfaced none.
C5_OnlyLastFailureSurfaces ==
  \A i \in Inv :
    /\ Len(thrown[i]) <= 1
    /\ (pc[i] = "thrown") <=> (thrown[i] # <<>>)
    /\ thrown[i] # <<>> =>
         /\ result[i] = <<>>
         /\ Len(history[i]) = calls[i]
         /\ Failed(Last(history[i]))
         /\ thrown[i][1] = Last(history[i]).error
         /\ thrown[i][1].id = calls[i]
         /\ \A k \in 1..(Len(history[i]) - 1) : history[i][k].error # thrown[i][1]
    /\ pc[i] = "returned" => thrown[i] = <<>>

W_C5_LastOfSeveralFailures ==
  \E i \in Inv :
    /\ pc[i] = "thrown" /\ Len(history[i]) >= 3
    /\ Is5xx(history[i][1]) /\ Is4xxNot429(Last(history[i]))

\* ------------------------------------------------------------------------
\* What a failure object holds: the parts of its message, and the attempt
\* count if it has a field for it.
LabelCarried(e, label) == \E k \in 1..Len(e.message) : e.message[k] = label
NumberCarried(e, n) == "attempts" \in DOMAIN e /\ e.attempts = n

\* C6: the failure delivered to the caller on terminal propagation carries
\* the operation label and the number of attempts made.
C6_FailureCarriesLabelAndCount ==
  \A i \in Inv :
    pc[i] = "thrown" =>
      /\ LabelCarried(thrown[i][1], cfg[i].operationName)
      /\ NumberCarried(thrown[i][1], calls[i])

\* ------------------------------------------------------------------------
\* C7 (as claimed): a 429 failure does not end the invocation while the
\* attempt counter is at most maxRetries, and an operation that fails with
\* 429 on every attempt ends in a failure after exactly maxRetries+1
\* attempts.
C7_Original_429ExhaustsAfterNPlus1 ==
  \A i \in Inv :
    /\ \A k \in 1..Len(history[i]) :
         (Is429(history[i][k]) /\ k <= cfg[i].maxRetries) =>
           (Len(sleeps[i]) >= k /\ (pc[i] = "thrown" => Len(history[i]) > k))
    /\ (Started(i) /\ history[i] # <<>> /\ AllOf(history[i], Is429)) =>
         /\ pc[i] # "returned"
         /\ (pc[i] = "thrown") <=> (Len(history[i]) = cfg[i].maxRetries + 1)
         /\ pc[i] = "thrown" => calls[i] = cfg[i].maxRetries + 1

\* C7 (amended): as claimed, with the attempts of the always-429 operation
\* counted as max(maxRetries, 0) + 1, which is maxRetries+1 whenever
\* maxRetries >= 0.
C7_429ExhaustsAfterMaxNZeroPlus1 ==
  \A i \in Inv :
    /\ \A k \in 1..Len(history[i]) :
         (Is429(history[i][k]) /\ k <= cfg[i].maxRetries) =>
           (Len(sleeps[i]) >= k /\ (pc[i] = "thrown" => Len(history[i]) > k))
    /\ (Started(i) /\ history[i] # <<>> /\ AllOf(history[i], Is429)) =>
         /\ pc[i] # "returned"
         /\ calls[i] <= Max(cfg[i].maxRetries, 0) + 1
         /\ (pc[i] = "thrown") <=> (Len(history[i]) = Max(cfg[i].maxRetries, 0) + 1)
         /\ pc[i] = "thrown" => calls[i] = Max(cfg[i].maxRetries, 0) + 1

W_C7_ExhaustedOn429 ==
  \E i \in Inv :
    /\ pc[i] = "thrown" /\ cfg[i].maxRetries = 2
    /\ Len(history[i]) = 3 /\ AllOf(history[i], Is429)
    /\ Len(sleeps[i]) = 2

\* ------------------------------------------------------------------------
\* C8: the attempts of one invocation are strictly sequential: never more
\* than one call of the operation is in flight, and a further call is made
\* only when none is in flight, the previous one has failed, and the timer
\* of the suspension computed for that failure has fired.
C8_AttemptsStrictlySequential ==
  [][\A i \in Inv :
       /\ inflight'[i] <= 1
       /\ calls'[i] # calls[i] =>
            /\ calls'[i] = calls[i] + 1
            /\ inflight[i] = 0 /\ inflight'[i] = 1
            /\ calls[i] > 0 =>
                 /\ Len(history[i]) = calls[i]
                 /\ Failed(history[i][calls[i]])
                 /\ Len(sleeps[i]) = calls[i]
                 /\ timer[i] = <<sleeps[i][calls[i]]>>
                 /\ sleeps[i][calls[i]] = delay[i]
                 /\ timer'[i] = <<>>]_vars

W_C8_SecondAttemptInFlight ==
  \E i \in Inv :
    /\ calls[i] = 2 /\ inflight[i] = 1 /\ pc[i] = "awaitRequest"
    /\ Len(sleeps[i]) = 1 /\ timer[i] = <<>>

\* ------------------------------------------------------------------------
\* An invocation run alone: the state withRetry is in after the outcomes h
\* have arrived one after the other, each suspension having elapsed.
AloneInit(c) ==
  [pc |-> "awaitRequest", retries |-> 0, delay |-> c.initialDelay,
   calls |-> 1, sleeps |-> <<>>]

AloneStep(c, st, o) ==
  IF st.pc # "awaitRequest" THEN st
  ELSE IF o.ok THEN [st EXCEPT !.pc = "returned"]
  ELSE IF st.retries + 1 > c.maxRetries
          \/ (o.error.hasResponse /\ o.error.status \in (400..499) \ {429})
  THEN [st EXCEPT !.pc = "thrown", !.retries = @ + 1]
  ELSE LET d == IF o.error.hasResponse /\ o.error.status = 429
                THEN st.delay * c.delayMultiplier * 2
                ELSE st.delay * c.delayMultiplier
       IN [st EXCEPT !.retries = @ + 1, !.delay = d, !.calls = @ + 1,
                     !.sleeps = Append(@, d)]

RECURSIVE Alone(_, _, _)
Alone(c, st, h) == IF h = <<>> THEN st ELSE Alone(c, AloneStep(c, st, Head(h)), Tail(h))

\* C9: every invocation owns its counter and its delay: under any
\* interleaving with other invocations its number of attempts, its counter,
\* its delay and its sequence of suspensions are those of the same
\* invocation run alone against the same sequence of outcomes.
C9_InvocationsIndependent ==
  \A i \in Inv :
    Started(i) =>
      LET a == Alone(cfg[i], AloneInit(cfg[i]), history[i]) IN
      /\ sleeps[i] = a.sleeps
      /\ retries[i] = a.retries
      /\ delay[i] = a.delay
      /\ calls[i] = IF pc[i] = "awaitSleep" THEN a.calls - 1 ELSE a.calls
      /\ pc[i] \in {"returned", "thrown"} => pc[i] = a.pc

W_C9_TwoInvocationsSuspended ==
  \E i, j \in Inv :
    /\ i # j
    /\ pc[i] = "awaitSleep" /\ pc[j] = "awaitSleep"
    /\ sleeps[i] = <<12000>> /\ sleeps[j] = <<6000>>

\* ------------------------------------------------------------------------
\* What a fully validated result of each endpoint operation is: the
\* response was a 2xx one, its status markers are right, the field the
\* result is taken from is present, and the result is that field.
FullyValidated(op, reply, v) ==
  LET body == reply.data IN
  /\ Resolves(reply)
  /\ CASE op = "login" ->
            /\ Get(body, "no") = Num(0)
            /\ Get(body, "error") = Str("success")
            /\ Get(Get(body, "data"), "user_id") # Undef
            /\ v.userId = Get(Get(body, "data"), "user_id")
       [] op = "getTiebaList" ->
            /\ Get(body, "error") = Str("success")
            /\ v.t = "array"
            /\ Get(Get(body, "data"), "like_forum") # Undef =>
                 v = Get(Get(body, "data"), "like_forum")
       [] op = "getTbs" ->
            /\ Get(body, "tbs").t = "string"
            /\ Get(body, "tbs") # Str("")
            /\ v = Get(body, "tbs")
       [] op = "signTieba" -> body \notin {Null, Undef, Str("")} /\ v = body
       [] OTHER -> TRUE

\* C10: every endpoint operation returns a fully validated result or ends in
\* a raised failure: a response with a missing required field or a wrong
\* status marker is never turned into a returned result.
C10_ReturnedResultsAreValidated ==
  \A i \in Inv :
    (pc[i] = "returned" /\ cfg[i].op \in EndpointOps) =>
      FullyValidated(cfg[i].op, Last(replies[i]), result[i][1])

\* ------------------------------------------------------------------------
\* The check login makes on a response: a 2xx response whose payload has
\* no = 0 and error = "success".
PassesLoginCheck(reply) ==
  /\ Resolves(reply)
  /\ Get(reply.data, "no") = Num(0)
  /\ Get(reply.data, "error") = Str("success")

\* C11: login returns a UserInfo exactly when an attempt's response has
\* no = 0 and error = "success"; the UserInfo has the payload's data.user_id
\* as userId, isValid true and the credential passed in as bduss.  When every
\* response fails the check, login ends in a failure after at most
\* maxRetries + 1 = 4 attempts and returns no UserInfo.
C11_LoginReturnsExactlyOnSuccessMarkers ==
  \A i \in Inv :
    (Started(i) /\ cfg[i].op = "login") =>
      /\ \A k \in 1..Len(replies[i]) :
           PassesLoginCheck(replies[i][k]) <=>
             /\ k = Len(replies[i])
             /\ pc[i] = "returned"
             /\ result[i][1].userId = Get(Get(replies[i][k].data, "data"), "user_id")
             /\ result[i][1].isValid
             /\ result[i][1].bduss = cfg[i].bduss
      /\ calls[i] <= MAX_RETRIES + 1
      /\ (Len(replies[i]) = MAX_RETRIES + 1 /\ ~PassesLoginCheck(Last(replies[i])))
           => pc[i] = "thrown"

\* ------------------------------------------------------------------------
\* a 2xx response with the success marker and no data.like_forum field,
\* the data object being present or not
SuccessWithoutLikeForum(reply) ==
  /\ Resolves(reply)
  /\ Get(reply.data, "error") = Str("success")
  /\ Get(Get(reply.data, "data"), "like_forum") = Undef

\* C12: getTiebaList, given a response with the success marker and no
\* data.like_forum field (data present without like_forum, or data absent),
\* returns the empty sequence and does not fail.
C12_MissingLikeForumGivesEmptyList ==
  \A i \in Inv :
    (Started(i) /\ cfg[i].op = "getTiebaList") =>
      \A k \in 1..Len(replies[i]) :
        SuccessWithoutLikeForum(replies[i][k]) =>
          /\ history[i][k].ok
          /\ k = Len(replies[i])
          /\ pc[i] = "returned"
          /\ result[i] = <<Arr(<<>>)>>

\* ------------------------------------------------------------------------
\* a 2xx response whose payload has a present, non-empty tbs field
HasToken(reply) ==
  /\ Resolves(reply)
  /\ Get(reply.data, "tbs").t = "string"
  /\ Get(reply.data, "tbs").s # ""

\* C13: getTbs returns the token exactly when an attempt's response has a
\* present, non-empty tbs field, and the value returned is that field; when
\* every response has tbs empty or missing no token is returned and getTbs
\* ends in a failure.
C13_GetTbsReturnsExactlyNonEmptyToken ==
  \A i \in Inv :
    (Started(i) /\ cfg[i].op = "getTbs") =>
      /\ \A k \in 1..Len(replies[i]) :
           HasToken(replies[i][k]) <=>
             /\ k = Len(replies[i])
             /\ pc[i] = "returned"
             /\ result[i] = <<Get(replies[i][k].data, "tbs")>>
      /\ calls[i] <= MAX_RETRIES + 1
      /\ (Len(replies[i]) = MAX_RETRIES + 1 /\ ~HasToken(Last(replies[i])))
           => (pc[i] = "thrown" /\ result[i] = <<>>)

W_C13_TokenAfterEmptyToken ==
  \E i \in Inv :
    /\ cfg[i].op = "getTbs" /\ pc[i] = "returned"
    /\ Len(replies[i]) = 2
    /\ Resolves(replies[i][1])
    /\ Get(replies[i][1].data, "tbs") = Str("")
    /\ result[i] = <<Str("abc123")>>

W_C13_FailsOnMissingToken ==
  \E i \in Inv :
    /\ cfg[i].op = "getTbs" /\ pc[i] = "thrown"
    /\ Len(replies[i]) = MAX_RETRIES + 1
    /\ \A k \in 1..Len(replies[i]) : Resolves(replies[i][k]) /\ ~HasToken(replies[i][k])

\* ------------------------------------------------------------------------
\* the failure signTieba raises for a response without payload
IsEmptyResponseFailure(o) ==
  ~o.ok /\ o.error.name = "Error" /\ o.error.message = <<"sign response data is empty">>

\* the index handed to signTieba has no effect on the requests sent
IndexHasNoEffect(i) ==
  /\ Len(sent[i]) = calls[i]
  /\ \A k \in 1..Len(sent[i]) : \A ix \in Indices :
       sent[i][k] = SignRequest(cfg[i].bduss, cfg[i].tiebaName, cfg[i].tbs, ix)

\* C14: signTieba returns the response body unchanged for every non-null,
\* non-empty body, fails with the empty-response failure for an empty or
\* null body, and the index has no effect on request or result.
C14_NonNullBodyReturned ==
  \A i \in Inv :
    (Started(i) /\ cfg[i].op = "signTieba") =>
      /\ \A k \in 1..Len(replies[i]) :
           Resolves(replies[i][k]) =>
             IF replies[i][k].data \in {Null, Undef, Str("")}
             THEN IsEmptyResponseFailure(history[i][k])
             ELSE /\ history[i][k].ok
                  /\ k = Len(replies[i])
                  /\ pc[i] = "returned"
                  /\ result[i] = <<replies[i][k].data>>
      /\ IndexHasNoEffect(i)

\* ------------------------------------------------------------------------
\* C15: after an attempt fails, withRetry propagates the failure if and only
\* if the incremented attempt counter exceeds maxRetries or the failure has
\* an HTTP status in 400..499 other than 429.  This holds on every attempt:
\* a non-429 4xx on a later attempt ends the invocation with no further
\* suspension or attempt, and a failure without status or with a 5xx status
\* never ends it before exhaustion.
C15_PropagatesIffExhaustedOrClientError ==
  \A i \in Inv :
    /\ \A k \in 1..Len(history[i]) :
         Failed(history[i][k]) =>
           /\ retries[i] >= k
           /\ (k = Len(history[i]) /\ pc[i] = "thrown")
                <=> (k > cfg[i].maxRetries \/ Is4xxNot429(history[i][k]))
           /\ (k = Len(history[i]) /\ pc[i] = "thrown") =>
                /\ Len(sleeps[i]) = k - 1 /\ timer[i] = <<>>
                /\ calls[i] = k /\ inflight[i] = 0
           /\ (k <= cfg[i].maxRetries /\ ~Is4xxNot429(history[i][k])) =>
                Len(sleeps[i]) >= k
    /\ retries[i] = Cardinality({k \in 1..Len(history[i]) : Failed(history[i][k])})

W_C15_ClientErrorOnThirdAttempt ==
  \E i \in Inv :
    /\ cfg[i].maxRetries = MAX_RETRIES /\ cfg[i].op = "request"
    /\ pc[i] = "thrown" /\ Len(history[i]) = 3
    /\ ~history[i][1].error.hasResponse
    /\ Is5xx(history[i][2])
    /\ history[i][3].error.status = 499
    /\ Len(sleeps[i]) = 2

\* ------------------------------------------------------------------------
\* the k-th attempt of invocation i got a 2xx response and the endpoint
\* operation raised a failure on its payload
IsValidationFailure(i, k) == Resolves(replies[i][k]) /\ Failed(history[i][k])

\* the delay in force when the k-th attempt was made
DelayBefore(i, k) == IF k = 1 THEN cfg[i].initialDelay ELSE sleeps[i][k - 1]

\* C16: a validation failure raised by an endpoint operation on a 2xx
\* response has no HTTP status and is retried like a generic transient
\* failure: it is propagated only by exhaustion, at attempt maxRetries + 1
\* (so not on its first occurrence when maxRetries >= 1), and the suspension
\* after it is the delay in force times the multiplier, the escalation a
\* network failure gets.
C16_ValidationFailureRetriedAsGeneric ==
  \A i \in Inv :
    (Started(i) /\ cfg[i].op \in EndpointOps) =>
      \A k \in 1..Len(history[i]) :
        IsValidationFailure(i, k) =>
          /\ ~history[i][k].error.hasResponse
          /\ k <= cfg[i].maxRetries + 1
          /\ (k = Len(history[i]) /\ pc[i] = "thrown") <=> (k = cfg[i].maxRetries + 1)
          /\ k <= cfg[i].maxRetries =>
               /\ Len(sleeps[i]) >= k
               /\ sleeps[i][k] = DelayBefore(i, k) * cfg[i].delayMultiplier
               /\ sleeps[i][k] =
                    NextDelay(DelayBefore(i, k), cfg[i].delayMultiplier,
                              AxiosErrorOf(NetworkFailure, k))

W_C16_FourValidationFailures ==
  \E i \in Inv :
    /\ cfg[i].op = "getTbs" /\ pc[i] = "thrown"
    /\ Len(history[i]) = MAX_RETRIES + 1
    /\ \A k \in 1..Len(history[i]) : IsValidationFailure(i, k)
    /\ sleeps[i] = <<6000, 12000, 24000>>

\* ------------------------------------------------------------------------
Terminated(i) == pc[i] \in {"returned", "thrown"}
Budget(i) == Max(cfg[i].maxRetries, 0) + 1

\* C17: whatever the attempt outcomes are, an invocation whose attempts and
\* suspensions all end terminates (an invocation is called once and, once
\* terminated, stays so: from some point on every started invocation has
\* returned or thrown), and it makes at most
\* max(maxRetries, 0) + 1 attempts; a failure that is not a 4xx other than
\* 429 is propagated exactly when the budget is used up, whether the
\* failures before it were rate-limited or generic; with maxRetries <= 0
\* exactly one attempt is made.
C17_TerminatesWithinBudget ==
  /\ [](\A i \in Inv :
          Started(i) =>
            /\ calls[i] >= 1 /\ calls[i] <= Budget(i)
            /\ retries[i] <= Budget(i)
            /\ cfg[i].maxRetries <= 0 => calls[i] = 1 /\ sleeps[i] = <<>>
            /\ (pc[i] = "thrown" /\ ~Is4xxNot429(Last(history[i]))) =>
                 Len(history[i]) = Budget(i)
            /\ (Terminated(i) /\ Len(history[i]) < Budget(i)) =>
                 \/ pc[i] = "returned"
                 \/ Is4xxNot429(Last(history[i])))
  /\ <>[](\A i \in Inv : Started(i) => Terminated(i))

W_C17_MixedFailuresUseOneBudget ==
  \E i \in Inv :
    /\ pc[i] = "thrown" /\ cfg[i].maxRetries = 2 /\ calls[i] = 3
    /\ Is429(history[i][1]) /\ IsGeneric(history[i][2]) /\ Is429(history[i][3])

\* ------------------------------------------------------------------------
\* C18: a finished invocation has made one suspension less than attempts.
\* No suspension precedes the first attempt, suspension k follows the failed
\* attempt k and precedes attempt k + 1, and no suspension follows the attempt
\* whose result is returned or whose failure is propagated.
C18_SuspensionsAreAttemptsMinusOne ==
  \A i \in Inv :
    Started(i) =>
      /\ pc[i] = "awaitRequest" =>
           /\ Len(sleeps[i]) = calls[i] - 1
           /\ Len(history[i]) = calls[i] - 1
           /\ timer[i] = <<>>
      /\ pc[i] = "awaitSleep" =>
           /\ Len(sleeps[i]) = calls[i]
           /\ Len(history[i]) = calls[i]
           /\ timer[i] = <<Last(sleeps[i])>>
      /\ Terminated(i) =>
           /\ Len(sleeps[i]) = calls[i] - 1
           /\ Len(history[i]) = calls[i]
           /\ timer[i] = <<>>
      /\ \A k \in 1..Len(sleeps[i]) : Failed(history[i][k])

W_C18_ReturnedAfterTwoSuspensions ==
  \E i \in Inv :
    /\ pc[i] = "returned" /\ calls[i] = 3 /\ Len(sleeps[i]) = 2
    /\ timer[i] = <<>> /\ Failed(history[i][1]) /\ Failed(history[i][2])

\* ------------------------------------------------------------------------
\* the rate-limited failures and the other failures among the first k attempts
RateLimitedUpTo(i, k) == Cardinality({j \in 1..k : Is429(history[i][j])})
GenericUpTo(i, k) ==
  Cardinality({j \in 1..k : Failed(history[i][j]) /\ ~Is429(history[i][j])})

\* C19: the escalation never resets. The k-th suspension, computed after g
\* generic and r rate-limited retried failures in any order, lasts
\* initialDelay * multiplier^(g+r) * 2^r, the delay variable keeps that value,
\* and with multiplier >= 1 no suspension is shorter than the one before it.
C19_EscalationNeverResets ==
  \A i \in Inv :
    Started(i) =>
      /\ \A k \in 1..Len(sleeps[i]) :
           LET g == GenericUpTo(i, k)
               r == RateLimitedUpTo(i, k)
           IN /\ g + r = k
              /\ sleeps[i][k] =
                   cfg[i].initialDelay * Pow(cfg[i].delayMultiplier, g + r) * Pow(2, r)
              /\ (cfg[i].delayMultiplier >= 1 /\ k > 1) =>
                   sleeps[i][k] >= sleeps[i][k - 1]
              /\ (cfg[i].delayMultiplier >= 1) => sleeps[i][k] >= cfg[i].initialDelay
      /\ delay[i] = IF sleeps[i] = <<>> THEN cfg[i].initialDelay ELSE Last(sleeps[i])

W_C19_DoublingPersistsThroughGenericFailures ==
  \E i \in Inv :
    /\ cfg[i].initialDelay = RETRY_DELAY /\ cfg[i].delayMultiplier = RETRY_MULTIPLIER
    /\ Len(history[i]) >= 3
    /\ Is429(history[i][1]) /\ IsGeneric(history[i][2]) /\ IsGeneric(history[i][3])
    /\ sleeps[i] = <<12000, 24000, 48000>>

====
